---- MODULE Spec2Model ----
(***************************************************************************)
(* A model of kindle2pdf.py: the capture loop, the border scanners, the    *)
(* consensus crop rectangle, cropping, PDF assembly and the orchestration  *)
(* of main_process, with the reader window, the file system and the two    *)
(* external tools as the environment.                                      *)
(***************************************************************************)
EXTENDS Integers, Sequences, FiniteSets, TLC

VARIABLES
    config,         \* self.config: [border_color, background_color]
    comic,          \* main_process argument
    right,          \* main_process argument
    windows,        \* environment: the windows titled 'Kindle for PC', in list order
    book,           \* environment: the frame styles the reader shows, page by page
    wrap,           \* environment: TRUE when the reader never stops advancing (it cycles)
    pos,            \* environment: the page the reader currently shows
    pc,             \* position in main_process
    err,            \* the exception that ended main_process, or None
    stages,         \* the stages of main_process that have started, in order
    kindle_window,  \* self.kindle_window
    prev_img,       \* self.prev_img
    image_width,    \* self.image_width
    image_height,   \* self.image_height
    image_top,      \* self.image_top
    image_bottom,   \* self.image_bottom
    page_number,    \* local of _capture_all_pages
    page_num,       \* local of main_process
    shots,          \* number of screenshots taken
    clicks,         \* number of clicks issued
    last_click,     \* position of the last click
    page_files,     \* output/page_NNNN.png: file name (its four digits) -> image
    docs,           \* output/temp_book.pdf, output/temp_cmp_book.pdf and <name>.pdf
    scan_im,        \* the image handed to the scanners (scanner specification)
    scan_out        \* what the scanners returned for it

vars == <<config, comic, right, windows, book, wrap, pos, pc, err, stages,
          kindle_window, prev_img, image_width, image_height, image_top,
          image_bottom, page_number, page_num, shots, clicks, last_click,
          page_files, docs, scan_im, scan_out>>

----------------------------------------------------------------------------
(* Bounds of the model *)

MaxBook == 2        \* longest book the reader holds
FrameW == 28        \* width of a captured frame
FrameH == 13        \* height of a captured frame
MaxRing == 2        \* thickest border ring of a synthetic frame
MaxChrome == 1      \* widest window chrome outside the ring
MaxMargin == 2      \* widest left, top or bottom margin of a synthetic frame

(* Program constants *)

PAGE_NUMBER_MAX == 500
RIGHT_SKIP == 20

----------------------------------------------------------------------------
(* Python's None and a present value *)

None == <<>>
Some(v) == <<v>>
Val(o) == o[1]

Min(a, b) == IF a <= b THEN a ELSE b
Max(a, b) == IF a >= b THEN a ELSE b

(* Colours *)

border_color == <<231, 231, 231>>
WHITE == <<255, 255, 255>>
BLACK == <<0, 0, 0>>
CHROME == <<32, 32, 32>>
RED == <<200, 30, 30>>

K2pConfig(c) ==
    [border_color |-> border_color,
     background_color |-> IF c THEN BLACK ELSE WHITE]

----------------------------------------------------------------------------
(* Images.  A frame is what the reader renders: window chrome `o` pixels   *)
(* wide, inside it a ring of border_color `t` pixels thick, inside it a    *)
(* margin of colour `paper` (ml, mr, mt, mb pixels) and the content, of    *)
(* colour `ink`.  An image is a frame with the crop boxes applied to it,   *)
(* in order.                                                               *)

FramePixel(f, x, y) ==
    LET r == f.o + f.t
        inWindow == x >= f.o /\ x < f.w - f.o /\ y >= f.o /\ y < f.h - f.o
        inRing == x >= r /\ x < f.w - r /\ y >= r /\ y < f.h - r
        inContent == /\ x >= r + f.ml /\ x <= f.w - 1 - r - f.mr
                     /\ y >= r + f.mt /\ y <= f.h - 1 - r - f.mb
    IN  IF ~inWindow THEN CHROME
        ELSE IF ~inRing THEN border_color
        ELSE IF inContent THEN f.ink
        ELSE f.paper

FullImage(f) == [src |-> f, boxes |-> <<>>]

Front(s) == SubSeq(s, 1, Len(s) - 1)

SizeOf(f, boxes) ==
    IF boxes = <<>> THEN <<f.w, f.h>>
    ELSE LET b == boxes[Len(boxes)] IN <<b[3] - b[1], b[4] - b[2]>>

Width(im) == SizeOf(im.src, im.boxes)[1]
Height(im) == SizeOf(im.src, im.boxes)[2]

RECURSIVE PixelOf(_, _, _, _)
PixelOf(f, boxes, x, y) ==
    IF boxes = <<>> THEN FramePixel(f, x, y)
    ELSE LET b == boxes[Len(boxes)]
             inner == Front(boxes)
             sz == SizeOf(f, inner)
             ix == b[1] + x
             iy == b[2] + y
         IN  IF ix >= 0 /\ ix < sz[1] /\ iy >= 0 /\ iy < sz[2]
             THEN PixelOf(f, inner, ix, iy)
             ELSE BLACK

getpixel(im, x, y) == PixelOf(im.src, im.boxes, x, y)

crop(im, box) == [src |-> im.src, boxes |-> Append(im.boxes, box)]

\* the pixels of an image, row by row
BytesLen(im) == Width(im) * Height(im)

tobytes(im) ==
    LET w == Width(im)
    IN  [i \in 1..BytesLen(im) |-> getpixel(im, (i - 1) % w, (i - 1) \div w)]

----------------------------------------------------------------------------
(* The border scanners *)

RECURSIVE FindLeftFrom(_, _, _, _, _, _)
FindLeftFrom(cfg, im, sample_y, x, border_find, prev_pixel) ==
    IF x >= Width(im) THEN None
    ELSE LET pixel == getpixel(im, x, sample_y) IN
         IF ~border_find
         THEN FindLeftFrom(cfg, im, sample_y, x + 1,
                           pixel = cfg.border_color, Some(pixel))
         ELSE IF prev_pixel = Some(cfg.background_color)
                 /\ pixel # cfg.background_color
         THEN Some(x)
         ELSE FindLeftFrom(cfg, im, sample_y, x + 1, TRUE, Some(pixel))

_find_left_border_off(cfg, im, sample_y) ==
    LET r == FindLeftFrom(cfg, im, sample_y, 0, FALSE, None)
    IN  IF r = None THEN None ELSE Some(Val(r) - 1)

_find_left_border(cfg, im, sample_y) ==
    FindLeftFrom(cfg, im, sample_y, 0, FALSE, None)

RECURSIVE FindRightFrom(_, _, _, _, _)
FindRightFrom(cfg, im, sample_y, x, prev_pixel) ==
    IF x < 0 THEN None
    ELSE LET pixel == getpixel(im, x, sample_y) IN
         IF prev_pixel = Some(cfg.background_color)
            /\ pixel # cfg.background_color
         THEN Some(x)
         ELSE FindRightFrom(cfg, im, sample_y, x - 1, Some(pixel))

_find_right_border(cfg, im, sample_y) ==
    FindRightFrom(cfg, im, sample_y, Width(im) - RIGHT_SKIP, None)

KeepMin(acc, temp) ==
    IF temp # None
    THEN (IF acc = None THEN temp ELSE Some(Min(Val(acc), Val(temp))))
    ELSE acc

KeepMax(acc, temp) ==
    IF temp # None
    THEN (IF acc = None THEN temp ELSE Some(Max(Val(acc), Val(temp))))
    ELSE acc

_detect_crop_border_x(cfg, im) ==
    LET y_block == Height(im) \div 3
        l1 == KeepMin(None, _find_left_border(cfg, im, y_block))
        r1 == KeepMax(None, _find_right_border(cfg, im, y_block))
        l2 == KeepMin(l1, _find_left_border(cfg, im, y_block * 2))
        r2 == KeepMax(r1, _find_right_border(cfg, im, y_block * 2))
    IN  <<l2, r2>>

RECURSIVE FindTopFrom(_, _, _, _)
FindTopFrom(cfg, im, sample_x, y) ==
    IF y >= Height(im) THEN None
    ELSE IF getpixel(im, sample_x, y) = cfg.border_color THEN Some(y + 1)
    ELSE FindTopFrom(cfg, im, sample_x, y + 1)

_find_top_border(cfg, im, sample_x) == FindTopFrom(cfg, im, sample_x, 0)

RECURSIVE FindBottomFrom(_, _, _, _, _)
FindBottomFrom(cfg, im, sample_x, y, border_find) ==
    IF y < 0 THEN None
    ELSE LET pixel == getpixel(im, sample_x, y) IN
         IF ~border_find
         THEN FindBottomFrom(cfg, im, sample_x, y - 1, pixel = cfg.border_color)
         ELSE IF pixel = cfg.border_color THEN Some(y - 1)
         ELSE FindBottomFrom(cfg, im, sample_x, y - 1, TRUE)

_find_bottom_border(cfg, im, sample_x) ==
    FindBottomFrom(cfg, im, sample_x, Height(im) - 1, FALSE)

_detect_crop_border_y(cfg, im) ==
    LET x_block == Width(im) \div 3
        t1 == KeepMin(None, _find_top_border(cfg, im, x_block))
        b1 == KeepMax(None, _find_bottom_border(cfg, im, x_block))
        t2 == KeepMin(t1, _find_top_border(cfg, im, x_block * 2))
        b2 == KeepMax(b1, _find_bottom_border(cfg, im, x_block * 2))
    IN  <<t2, b2>>

----------------------------------------------------------------------------
(* The environment: the reader, its window and the frames it renders *)

Style(o, t, ml, mr, mt, mb, paper, ink) ==
    [o |-> o, t |-> t, ml |-> ml, mr |-> mr, mt |-> mt, mb |-> mb,
     paper |-> paper, ink |-> ink]

Render(s, w, h) ==
    [o |-> s.o, t |-> s.t, ml |-> s.ml, mr |-> s.mr, mt |-> s.mt, mb |-> s.mb,
     paper |-> s.paper, ink |-> s.ink, w |-> w, h |-> h]

\* a thick ring at the window edge, black text on white
StyleA == Style(0, 2, 1, RIGHT_SKIP - 1, 1, 1, WHITE, BLACK)
\* one pixel of chrome, then a thick ring, red content on white
StyleB == Style(1, 2, 1, RIGHT_SKIP - 2, 1, 1, WHITE, RED)
\* a ring one pixel thick
StyleT == Style(0, 1, 1, RIGHT_SKIP, 2, 1, WHITE, BLACK)
\* no ring at all
StyleX == Style(0, 0, 2, RIGHT_SKIP, 1, 1, WHITE, RED)
\* a comic page: a thick ring, red content on black
StyleC == Style(0, 2, 2, RIGHT_SKIP - 2, 1, 1, BLACK, RED)

Palette == {StyleA, StyleB, StyleT, StyleX, StyleC}

\* a reader that stops at the last page of its book
Books == UNION {[1..n -> Palette] : n \in 1..MaxBook}

\* a reader that never stops: it shows these frames in turn, for ever
EndlessBooks == {<<StyleA, StyleB>>, <<StyleX, StyleC>>, <<StyleB, StyleT, StyleX>>}

ScreenW == FrameW + 1
ScreenH == FrameH + 1

Window(visible) ==
    [left |-> 3, top |-> 2, width |-> 10, height |-> 8, visible |-> visible]

WindowLists == {<<>>, <<Window(FALSE)>>, <<Window(FALSE), Window(TRUE)>>}

\* the reader after one next-page click
Advance(p) ==
    IF p < Len(book) THEN p + 1
    ELSE IF wrap THEN 1
    ELSE p

----------------------------------------------------------------------------
(* File names *)

RECURSIVE Digits(_)
Digits(n) == IF n < 10 THEN <<n>> ELSE Append(Digits(n \div 10), n % 10)

RECURSIVE ZeroPad(_, _)
ZeroPad(s, width) == IF Len(s) >= width THEN s ELSE ZeroPad(<<0>> \o s, width)

\* the NNNN of f'page_{page_num:04d}.png'
page_path(n) == ZeroPad(Digits(n), 4)

NoDocs == [temp_book |-> None, temp_cmp_book |-> None, out |-> None]

----------------------------------------------------------------------------
(* main_process, stage by stage *)

Raise(msg) ==
    /\ pc' = "aborted"
    /\ err' = Some(msg)

\* a variant that goes on to the next stage when no window was found
_get_kindle_window_goes_on ==
    /\ pc = "get_window"
    /\ stages' = Append(stages, "get_window")
    /\ LET kindle_windows == SelectSeq(windows, LAMBDA w : w.visible) IN
       kindle_window' = IF kindle_windows # <<>>
                        THEN Some(kindle_windows[1])
                        ELSE kindle_window
    /\ pc' = "maximize"
    /\ UNCHANGED <<config, comic, right, windows, book, wrap, pos, err,
                   prev_img, image_width, image_height, image_top, image_bottom,
                   page_number, page_num, shots, clicks, last_click,
                   page_files, docs, scan_im, scan_out>>

_get_kindle_window ==
    /\ pc = "get_window"
    /\ stages' = Append(stages, "get_window")
    /\ LET kindle_windows == SelectSeq(windows, LAMBDA w : w.visible) IN
       IF kindle_windows # <<>>
       THEN /\ kindle_window' = Some(kindle_windows[1])
            /\ pc' = "maximize"
            /\ err' = err
       ELSE /\ Raise("Kindle window not found.")
            /\ kindle_window' = kindle_window
    /\ UNCHANGED <<config, comic, right, windows, book, wrap, pos, prev_img,
                   image_width, image_height, image_top, image_bottom,
                   page_number, page_num, shots, clicks, last_click,
                   page_files, docs, scan_im, scan_out>>

_maximize_kindle_window ==
    /\ pc = "maximize"
    /\ stages' = Append(stages, "maximize")
    /\ IF kindle_window = None
       THEN /\ Raise("Kindle window not set.")
            /\ kindle_window' = kindle_window
       ELSE /\ kindle_window' = Some([Val(kindle_window) EXCEPT
                                         !.left = 0, !.top = 0,
                                         !.width = ScreenW, !.height = ScreenH])
            /\ pc' = "capture"
            /\ err' = err
    /\ UNCHANGED <<config, comic, right, windows, book, wrap, pos, prev_img,
                   image_width, image_height, image_top, image_bottom,
                   page_number, page_num, shots, clicks, last_click,
                   page_files, docs, scan_im, scan_out>>

\* pyautogui.screenshot(region=(left, top, width-1, height-1))
_capture_kindle_window ==
    LET win == Val(kindle_window)
    IN  FullImage(Render(book[pos], win.width - 1, win.height - 1))

\* prev.tobytes() == im.tobytes(): the same length and the same byte at
\* every place
SameBytes(p, q) ==
    LET a == tobytes(p)
        b == tobytes(q)
    IN  /\ BytesLen(p) = BytesLen(q)
        /\ \A i \in 1..BytesLen(p) : a[i] = b[i]

\* a variant that compares the sizes of the two frames only
_is_last_page_by_size(prev, im) ==
    IF prev # None THEN BytesLen(Val(prev)) = BytesLen(im) ELSE FALSE

_is_last_page(prev, im) ==
    IF prev # None THEN SameBytes(Val(prev), im) ELSE FALSE

_save_image(files, im, n) == (page_path(n) :> im) @@ files

\* where _next_page clicks
ClickAt(win, r) ==
    <<IF r THEN (win.left + win.width) - 20 ELSE win.left + 110,
      win.top + (win.height \div 2)>>

\* a variant that lets one page more through
LimitReached_late(n) == n > PAGE_NUMBER_MAX

\* the test that ends the loop of _capture_all_pages after a page is saved
LimitReached(n) == n >= PAGE_NUMBER_MAX

\* one iteration of the loop of _capture_all_pages
_capture_all_pages ==
    /\ pc = "capture"
    /\ stages' = IF shots = 0 THEN Append(stages, "capture") ELSE stages
    /\ IF kindle_window = None
       THEN /\ Raise("Kindle window not set.")
            /\ UNCHANGED <<pos, prev_img, page_number, page_num, shots, clicks,
                           last_click, page_files>>
       ELSE LET im == _capture_kindle_window IN
            /\ shots' = shots + 1
            /\ err' = err
            /\ IF _is_last_page(prev_img, im)
               THEN /\ page_num' = page_number
                    /\ pc' = "calc"
                    /\ UNCHANGED <<pos, prev_img, page_number, clicks,
                                   last_click, page_files>>
               ELSE /\ page_files' = _save_image(page_files, im, page_number + 1)
                    /\ page_number' = page_number + 1
                    /\ prev_img' = Some(im)
                    /\ clicks' = clicks + 1
                    /\ last_click' = Some(ClickAt(Val(kindle_window), right))
                    /\ pos' = Advance(pos)
                    /\ IF LimitReached(page_number')
                       THEN pc' = "calc" /\ page_num' = page_number'
                       ELSE pc' = "capture" /\ page_num' = page_num
    /\ UNCHANGED <<config, comic, right, windows, book, wrap, kindle_window,
                   image_width, image_height, image_top, image_bottom,
                   docs, scan_im, scan_out>>

NoBounds == [left |-> None, right |-> None, top |-> None, bottom |-> None]

Complete(b) ==
    b.left # None /\ b.right # None /\ b.top # None /\ b.bottom # None

\* a variant that keeps every bound an image did yield
Accumulate_each(acc, found) ==
    [left |-> KeepMin(acc.left, found.left),
     right |-> KeepMax(acc.right, found.right),
     top |-> KeepMin(acc.top, found.top),
     bottom |-> KeepMax(acc.bottom, found.bottom)]

\* what one image adds to the running bounds of _calc_image_size
Accumulate(acc, found) ==
    IF Complete(found)
    THEN [left |-> KeepMin(acc.left, found.left),
          right |-> KeepMax(acc.right, found.right),
          top |-> KeepMin(acc.top, found.top),
          bottom |-> KeepMax(acc.bottom, found.bottom)]
    ELSE acc

\* the four bounds the scanners find in one image
Detect(cfg, im) ==
    LET x == _detect_crop_border_x(cfg, im)
        y == _detect_crop_border_y(cfg, im)
    IN  [left |-> x[1], right |-> x[2], top |-> y[1], bottom |-> y[2]]

\* the loop of _calc_image_size for img_idx in range(lo, hi), in that order:
\* range(lo, hi) is range(lo, mid) followed by range(mid, hi)
RECURSIVE CalcLoop(_, _, _, _, _)
CalcLoop(cfg, files, lo, hi, acc) ==
    IF lo >= hi THEN acc
    ELSE IF hi = lo + 1
    THEN Accumulate(acc, Detect(cfg, files[page_path(lo + 1)]))
    ELSE LET mid == (lo + hi) \div 2
             first == CalcLoop(cfg, files, lo, mid, acc)
         IN  \* range(lo, mid) has run to its end when range(mid, hi) starts
             IF first \in {first} THEN CalcLoop(cfg, files, mid, hi, first)
             ELSE acc

\* the end of _calc_image_size: record the rectangle, or raise
Resolve(b) ==
    IF Complete(b)
    THEN /\ image_width' = Some(Val(b.right) - Val(b.left) + 1)
         /\ image_height' = Some(Val(b.bottom) - Val(b.top) + 1)
         /\ image_top' = Some(<<Val(b.left), Val(b.top)>>)
         /\ image_bottom' = Some(<<Val(b.right), Val(b.bottom)>>)
         /\ pc' = "crop"
         /\ err' = err
    ELSE /\ Raise("Could not calculate image size due to missing offsets.")
         /\ UNCHANGED <<image_width, image_height, image_top, image_bottom>>

_calc_image_size ==
    /\ pc = "calc"
    /\ stages' = Append(stages, "calc")
    /\ Resolve(CalcLoop(config, page_files, 0, page_num, NoBounds))
    /\ UNCHANGED <<config, comic, right, windows, book, wrap, pos,
                   kindle_window, prev_img, page_number, page_num, shots,
                   clicks, last_click, page_files, docs, scan_im, scan_out>>

\* the box _crop_images hands to Image.crop: (left, upper, right, lower)
CropBox(top_left, bottom_right) ==
    <<top_left[1], top_left[2], bottom_right[1], bottom_right[2]>>

\* Image.crop refuses a box whose right is less than its left or whose lower
\* is less than its upper, and save refuses an image that holds no pixel
EmptyBox(box) == box[3] <= box[1] \/ box[4] <= box[2]

CropError(box) ==
    IF box[3] < box[1] THEN "Coordinate 'right' is less than 'left'"
    ELSE IF box[4] < box[2] THEN "Coordinate 'lower' is less than 'upper'"
    ELSE "cannot write empty image"

PagePaths(n) == {page_path(i) : i \in 1..n}

_crop_images ==
    /\ pc = "crop"
    /\ stages' = Append(stages, "crop")
    /\ LET box == CropBox(Val(image_top), Val(image_bottom))
           paths == PagePaths(page_num)
       IN
       IF EmptyBox(box)
       THEN /\ Raise(CropError(box))
            /\ page_files' = page_files
       ELSE /\ page_files' =
                  [p \in DOMAIN page_files |->
                      IF p \in paths
                      THEN crop(page_files[p], box)
                      ELSE page_files[p]]
            /\ pc' = "create_pdf"
            /\ err' = err
    /\ UNCHANGED <<config, comic, right, windows, book, wrap, pos,
                   kindle_window, prev_img, image_width, image_height,
                   image_top, image_bottom, page_number, page_num, shots,
                   clicks, last_click, docs, scan_im, scan_out>>

\* a page of the PDF: its size, and the image placed on it
PdfPage(format, im, x, y, w, h) ==
    [size |-> format, img |-> im, at |-> <<x, y, w, h>>]

_paste_right_half(format, im, w, h) ==
    LET half_width == w \div 2
    IN  PdfPage(format, crop(im, <<half_width, 0, w, h>>), 0, 0, half_width, h)

_paste_left_half(format, im, w, h) ==
    LET half_width == w \div 2
    IN  PdfPage(format, crop(im, <<0, 0, half_width, h>>), 0, 0, half_width, h)

\* the pages one pass of the comic loop of _create_pdf adds
ComicPass(format, im, w, h) ==
    <<_paste_right_half(format, im, w, h), _paste_left_half(format, im, w, h)>>

\* the comic loop of _create_pdf for i in range(lo, hi), in that order
RECURSIVE ComicPages(_, _, _, _, _, _)
ComicPages(format, files, lo, hi, w, h) ==
    IF lo >= hi THEN <<>>
    ELSE IF hi = lo + 1
    THEN ComicPass(format, files[page_path(lo + 1)], w, h)
    ELSE LET mid == (lo + hi) \div 2
         IN  ComicPages(format, files, lo, mid, w, h)
                 \o ComicPages(format, files, mid, hi, w, h)

\* the pages one pass of the plain loop of _create_pdf adds
PlainPass(format, im, w, h) == <<PdfPage(format, im, 0, 0, w, h)>>

\* the plain loop of _create_pdf for i in range(lo, hi), in that order
RECURSIVE PlainPages(_, _, _, _, _, _)
PlainPages(format, files, lo, hi, w, h) ==
    IF lo >= hi THEN <<>>
    ELSE IF hi = lo + 1
    THEN PlainPass(format, files[page_path(lo + 1)], w, h)
    ELSE LET mid == (lo + hi) \div 2
         IN  PlainPages(format, files, lo, mid, w, h)
                 \o PlainPages(format, files, mid, hi, w, h)

Document(pages) == [pages |-> pages, compressed |-> FALSE, metadata |-> FALSE]

_create_pdf ==
    /\ pc = "create_pdf"
    /\ stages' = Append(stages, "create_pdf")
    /\ LET w == Val(image_width)
           h == Val(image_height)
       IN  \/ /\ comic
              /\ docs' = [docs EXCEPT !.temp_book =
                            Some(Document(ComicPages(<<w \div 2, h>>, page_files,
                                                     0, page_num, w, h)))]
           \/ /\ ~comic
              /\ docs' = [docs EXCEPT !.temp_book =
                            Some(Document(PlainPages(<<w, h>>, page_files,
                                                     0, page_num, w, h)))]
    /\ pc' = "compress"
    /\ UNCHANGED <<config, comic, right, windows, book, wrap, pos, err,
                   kindle_window, prev_img, image_width, image_height,
                   image_top, image_bottom, page_number, page_num, shots,
                   clicks, last_click, page_files, scan_im, scan_out>>

\* Ghostscript: it writes the compressed document, exits non-zero, or is not
\* installed (subprocess.run then raises FileNotFoundError, which is not caught)
_compress_pdf ==
    /\ pc = "compress"
    /\ stages' = Append(stages, "compress")
    /\ \/ /\ docs' = [docs EXCEPT !.temp_cmp_book =
                        Some([Val(docs.temp_book) EXCEPT !.compressed = TRUE])]
          /\ pc' = "inject"
          /\ err' = err
       \/ /\ docs' = docs
          /\ pc' = "inject"
          /\ err' = err
       \/ /\ docs' = docs
          /\ Raise("FileNotFoundError: gswin64c")
    /\ UNCHANGED <<config, comic, right, windows, book, wrap, pos,
                   kindle_window, prev_img, image_width, image_height,
                   image_top, image_bottom, page_number, page_num, shots,
                   clicks, last_click, page_files, scan_im, scan_out>>

\* the file main_process hands to _inject_metadata as its input
InjectInput(d) == d.temp_cmp_book

\* exiftool: it needs its input file, and may fail even then; os.system
\* reports neither
_inject_metadata ==
    /\ pc = "inject"
    /\ stages' = Append(stages, "inject")
    /\ \/ /\ InjectInput(docs) # None
          /\ docs' = [docs EXCEPT !.out =
                        Some([Val(InjectInput(docs)) EXCEPT !.metadata = TRUE])]
       \/ docs' = docs
    /\ pc' = "clean_up"
    /\ UNCHANGED <<config, comic, right, windows, book, wrap, pos, err,
                   kindle_window, prev_img, image_width, image_height,
                   image_top, image_bottom, page_number, page_num, shots,
                   clicks, last_click, page_files, scan_im, scan_out>>

_clean_up ==
    /\ pc = "clean_up"
    /\ stages' = Append(stages, "clean_up")
    /\ page_files' = [p \in DOMAIN page_files \ PagePaths(page_num) |->
                         page_files[p]]
    /\ docs' = [docs EXCEPT !.temp_book = None, !.temp_cmp_book = None]
    /\ pc' = "returned"
    /\ UNCHANGED <<config, comic, right, windows, book, wrap, pos, err,
                   kindle_window, prev_img, image_width, image_height,
                   image_top, image_bottom, page_number, page_num, shots,
                   clicks, last_click, scan_im, scan_out>>

----------------------------------------------------------------------------
(* The whole program: kindle2pdf(config).main_process(comic, name, right) *)

Init ==
    /\ comic \in BOOLEAN
    /\ right \in BOOLEAN
    /\ config = K2pConfig(comic)
    /\ windows \in WindowLists
    /\ \/ wrap = FALSE /\ book \in Books
       \/ wrap = TRUE /\ book \in EndlessBooks
    /\ pos = 1
    /\ pc = "get_window"
    /\ err = None
    /\ stages = <<>>
    /\ kindle_window = None
    /\ prev_img = None
    /\ image_width = None
    /\ image_height = None
    /\ image_top = None
    /\ image_bottom = None
    /\ page_number = 0
    /\ page_num = 0
    /\ shots = 0
    /\ clicks = 0
    /\ last_click = None
    /\ page_files = <<>>
    /\ docs = NoDocs
    /\ scan_im = None
    /\ scan_out = None

Next ==
    \/ _get_kindle_window
    \/ _maximize_kindle_window
    \/ _capture_all_pages
    \/ _calc_image_size
    \/ _crop_images
    \/ _create_pdf
    \/ _compress_pdf
    \/ _inject_metadata
    \/ _clean_up

Spec == Init /\ [][Next]_vars

\* the loop of _capture_all_pages keeps running: a Python loop does not stop
\* between two iterations
FairSpec == Spec /\ WF_vars(_capture_all_pages)

----------------------------------------------------------------------------
(* The scanners on their own: one synthetic frame, scanned once *)

RightMargins ==
    (1..MaxMargin) \cup ((RIGHT_SKIP - MaxRing - MaxChrome)..RIGHT_SKIP)

Inks(paper) == {BLACK, RED, WHITE} \ {paper}

ContentRect(f) ==
    [left |-> f.o + f.t + f.ml, right |-> f.w - 1 - f.o - f.t - f.mr,
     top |-> f.o + f.t + f.mt, bottom |-> f.h - 1 - f.o - f.t - f.mb]

ScanFrames ==
    {f \in [o : 0..MaxChrome, t : 0..MaxRing, ml : 1..MaxMargin,
            mr : RightMargins, mt : 1..MaxMargin, mb : 1..MaxMargin,
            paper : {WHITE, BLACK}, ink : {BLACK, RED, WHITE},
            w : {FrameW}, h : {FrameH}] :
        /\ f.ink \in Inks(f.paper)
        /\ ContentRect(f).left <= ContentRect(f).right
        /\ ContentRect(f).top <= ContentRect(f).bottom}

InitScan ==
    /\ comic \in BOOLEAN
    /\ right = FALSE
    /\ config = K2pConfig(comic)
    /\ windows = <<>>
    /\ book = <<>>
    /\ wrap = FALSE
    /\ pos = 1
    /\ pc = "scan"
    /\ err = None
    /\ stages = <<>>
    /\ kindle_window = None
    /\ prev_img = None
    /\ image_width = None
    /\ image_height = None
    /\ image_top = None
    /\ image_bottom = None
    /\ page_number = 0
    /\ page_num = 0
    /\ shots = 0
    /\ clicks = 0
    /\ last_click = None
    /\ page_files = <<>>
    /\ docs = NoDocs
    /\ scan_im \in {Some(FullImage(f)) : f \in ScanFrames}
    /\ scan_out = None

\* _detect_crop_border_x and _detect_crop_border_y on one image
ScanImage ==
    /\ pc = "scan"
    /\ scan_out' = Some(Detect(config, Val(scan_im)))
    /\ pc' = "scanned"
    /\ UNCHANGED <<config, comic, right, windows, book, wrap, pos, err, stages,
                   kindle_window, prev_img, image_width, image_height,
                   image_top, image_bottom, page_number, page_num, shots,
                   clicks, last_click, page_files, docs, scan_im>>

NextScan == ScanImage

SpecScan == InitScan /\ [][NextScan]_vars

----------------------------------------------------------------------------
(* What the claims speak of *)

\* the number NNNN of a file page_NNNN.png
PathNumber(p) == p[1] * 1000 + p[2] * 100 + p[3] * 10 + p[4]

\* the page the reader shows when the i-th screenshot is taken
ReaderPos(i) ==
    IF wrap THEN ((i - 1) % Len(book)) + 1 ELSE Min(i, Len(book))

\* the i-th screenshot of the session
Shot(i) == FullImage(Render(book[ReaderPos(i)], FrameW, FrameH))

Capturing == pc = "capture"
CaptureReturned == pc \notin {"get_window", "maximize", "capture"} /\ shots > 0
DuplicateFired == shots = page_num + 1

\* C1 (safety part): no page index above PAGE_NUMBER_MAX is ever persisted, and
\* the count _capture_all_pages returns is at most PAGE_NUMBER_MAX, and is
\* exactly PAGE_NUMBER_MAX when the duplicate condition never fired
C1_WithinCap ==
    /\ page_number <= PAGE_NUMBER_MAX
    /\ \A p \in DOMAIN page_files : PathNumber(p) <= PAGE_NUMBER_MAX
    /\ CaptureReturned =>
          /\ page_num = page_number
          /\ page_num <= PAGE_NUMBER_MAX
          /\ ~DuplicateFired => page_num = PAGE_NUMBER_MAX

\* C1: for every reader, the endless ones included, _capture_all_pages
\* terminates, persists no page index above PAGE_NUMBER_MAX and returns
\* N <= PAGE_NUMBER_MAX, with N = PAGE_NUMBER_MAX when no duplicate ended it
C1_CaptureTerminatesWithinCap ==
    /\ []C1_WithinCap
    /\ (Capturing ~> ~Capturing)

C1_Witness ==
    /\ pc = "calc"
    /\ wrap
    /\ ~DuplicateFired
    /\ page_num = PAGE_NUMBER_MAX
    /\ PAGE_NUMBER_MAX \in {PathNumber(p) : p \in DOMAIN page_files}

\* C2: in a session started with no previous frame, while the session runs and
\* when it has just ended the persisted files are exactly page_0001 .. page_k,
\* k = page_number, each index once, page i holding the i-th screenshot; every
\* screenshot taken so far is persisted, except the one that ended the session,
\* which is byte-identical to the last persisted frame; and no persisted frame
\* is byte-identical to the one persisted before it
C2_PersistedInOrder ==
    pc \in {"capture", "calc"} =>
       /\ {PathNumber(p) : p \in DOMAIN page_files} = 1..page_number
       /\ Cardinality(DOMAIN page_files) = page_number
       /\ \A p \in DOMAIN page_files : page_files[p] = Shot(PathNumber(p))
       /\ \A i \in 1..(page_number - 1) : ~SameBytes(Shot(i), Shot(i + 1))
       /\ shots \in {page_number, page_number + 1}
       /\ pc = "capture" => shots = page_number
       /\ shots = page_number + 1 =>
             /\ page_number >= 1
             /\ SameBytes(Shot(shots), Shot(page_number))
       /\ (pc = "calc" /\ shots = page_number) => page_number = PAGE_NUMBER_MAX

C2_Witness ==
    /\ pc = "calc"
    /\ page_number = 2
    /\ shots = 3
    /\ SameBytes(Shot(3), page_files[<<0, 0, 0, 2>>])
    /\ DOMAIN page_files = {<<0, 0, 0, 1>>, <<0, 0, 0, 2>>}

\* a synthetic frame of the kind the claim C3 is about: a ring, a margin of the
\* configured background colour, content of neither colour; both sampled rows
\* cross the content and both sampled columns lie inside the ring
StructurallyValid(cfg, f) ==
    LET c == ContentRect(f) IN
    /\ f.t >= 1
    /\ f.paper = cfg.background_color
    /\ f.ink \notin {cfg.border_color, cfg.background_color}
    /\ c.left <= c.right
    /\ c.top <= c.bottom
    /\ c.top <= f.h \div 3
    /\ (f.h \div 3) * 2 <= c.bottom
    /\ f.o + f.t <= f.w \div 3
    /\ (f.w \div 3) * 2 <= f.w - 1 - f.o - f.t

Scanned == pc = "scanned" /\ StructurallyValid(config, Val(scan_im).src)

\* C3 as stated: on every structurally valid synthetic frame the scanners
\* return the content rectangle
C3_ReturnsContentRectangle ==
    Scanned =>
       LET c == ContentRect(Val(scan_im).src) IN
       Val(scan_out) = [left |-> Some(c.left), right |-> Some(c.right),
                        top |-> Some(c.top), bottom |-> Some(c.bottom)]

\* C3 as amended: on every structurally valid synthetic frame, left is the
\* content's first column; right is the content's last column when the column
\* RIGHT_SKIP from the right edge lies right of the content; top is the row
\* after the ring's first row; bottom is the row before the ring's last but
\* one row when the ring is at least 2 thick, and the row before the ring's
\* first row when it is 1 thick
C3_ReturnsScanRuleBounds ==
    Scanned =>
       LET f == Val(scan_im).src
           c == ContentRect(f)
           out == Val(scan_out)
       IN  /\ out.left = Some(c.left)
           /\ f.o + f.t + f.mr >= RIGHT_SKIP => out.right = Some(c.right)
           /\ out.top = Some(f.o + 1)
           /\ f.t >= 2 => out.bottom = Some(f.h - f.o - 3)
           /\ f.t = 1 => out.bottom = Some(f.o - 1)

C3_Witness ==
    /\ Scanned
    /\ LET f == Val(scan_im).src
           c == ContentRect(f)
           out == Val(scan_out)
       IN  /\ f.o + f.t + f.mr >= RIGHT_SKIP
           /\ f.t >= 2
           /\ out.left = Some(c.left)
           /\ out.right = Some(c.right)
           /\ out.top # Some(c.top)
           /\ out.bottom # Some(c.bottom)

----------------------------------------------------------------------------
(* The crop rectangle and the pages *)

\* the styles of the persisted pages: page i shows the i-th screenshot
PersistedStyles == {book[j] : j \in 1..Min(page_num, Len(book))}

\* what the scanners find in a captured frame of style s
Found(s) == Detect(config, FullImage(Render(s, FrameW, FrameH)))

\* the scanner results of the persisted pages that have all four bounds
ValidFound == {d \in {Found(s) : s \in PersistedStyles} : Complete(d)}

SetMin(S) == CHOOSE m \in S : \A n \in S : m <= n
SetMax(S) == CHOOSE m \in S : \A n \in S : m >= n

\* C4: whenever _calc_image_size completes without raising, the recorded
\* rectangle has left < right and top < bottom and lies inside the frame:
\* 0 <= left, right < frame width, 0 <= top, bottom < frame height
C4_RectangleInsideFrame ==
    image_top # None =>
       LET left == Val(image_top)[1]
           top == Val(image_top)[2]
           rgt == Val(image_bottom)[1]
           bottom == Val(image_bottom)[2]
       IN  /\ left < rgt
           /\ top < bottom
           /\ 0 <= left /\ rgt < FrameW
           /\ 0 <= top /\ bottom < FrameH

\* C5: after _crop_images every page image has the width right-left+1 and the
\* height bottom-top+1 that _calc_image_size recorded and _create_pdf uses as
\* the page size
C5_CroppedSizeIsRecordedSize ==
    pc = "create_pdf" =>
       \A p \in PagePaths(page_num) :
          /\ Width(page_files[p]) = Val(image_width)
          /\ Height(page_files[p]) = Val(image_height)

\* C6: when the compressor exited non-zero (no compressed document was
\* written), metadata injection is handed the uncompressed temp_book.pdf
C6_InjectorGetsUncompressed ==
    (pc = "inject" /\ docs.temp_cmp_book = None) =>
       /\ InjectInput(docs) # None
       /\ InjectInput(docs) = docs.temp_book

\* C7: when main_process has returned normally, <name>.pdf exists and no
\* page_NNNN.png, temp_book.pdf or temp_cmp_book.pdf is left
C7_ReturnedMeansOutput ==
    pc = "returned" =>
       /\ docs.out # None
       /\ docs.temp_book = None
       /\ docs.temp_cmp_book = None
       /\ DOMAIN page_files \cap PagePaths(page_num) = {}

StageOrder ==
    <<"get_window", "maximize", "capture", "calc", "crop", "create_pdf",
      "compress", "inject", "clean_up">>

NoWindow == SelectSeq(windows, LAMBDA w : w.visible) = <<>>

GeometryUnresolved ==
    CaptureReturned /\ pc # "calc" /\ ValidFound = {}

C8_StagesInOrder ==
    /\ Len(stages) <= Len(StageOrder)
    /\ stages = SubSeq(StageOrder, 1, Len(stages))
    /\ (pc = "aborted") = (err # None)
    /\ NoWindow =>
          /\ Len(stages) <= 1
          /\ shots = 0
          /\ clicks = 0
          /\ page_files = <<>>
          /\ docs = NoDocs
    /\ GeometryUnresolved =>
          /\ pc = "aborted"
          /\ stages = SubSeq(StageOrder, 1, 4)
          /\ docs = NoDocs
          /\ DOMAIN page_files = PagePaths(page_num)
          /\ \A p \in DOMAIN page_files : page_files[p] = Shot(PathNumber(p))

\* C8: the stages start only in the order get_window, maximize, capture, calc,
\* crop, create_pdf, compress, inject, clean_up, and none starts after a fatal
\* error; with no visible Kindle window no screenshot, click or page file is
\* produced; when no persisted page yields all four bounds the run ends in
\* _calc_image_size, no later stage runs and the uncropped pages stay on disk
C8_FixedOrderFatalAborts ==
    /\ []C8_StagesInOrder
    /\ [][pc = "aborted" => stages' = stages]_vars

C8_Witness ==
    /\ pc = "aborted"
    /\ GeometryUnresolved
    /\ page_num >= 1
    /\ DOMAIN page_files = PagePaths(page_num)

\* C9: when at least one persisted page yields all four bounds,
\* _calc_image_size records left = min, right = max, top = min, bottom = max
\* over exactly the pages that yielded all four, wherever the other pages
\* stand in the page order
C9_ConsensusOverCompletePages ==
    (CaptureReturned /\ pc # "calc" /\ ValidFound # {}) =>
       /\ image_top # None
       /\ image_bottom # None
       /\ Val(image_top)[1] = SetMin({Val(d.left) : d \in ValidFound})
       /\ Val(image_bottom)[1] = SetMax({Val(d.right) : d \in ValidFound})
       /\ Val(image_top)[2] = SetMin({Val(d.top) : d \in ValidFound})
       /\ Val(image_bottom)[2] = SetMax({Val(d.bottom) : d \in ValidFound})

\* a page that lacks a bound stood in the set, and a bound it did yield lies
\* outside the recorded rectangle
C9_Witness ==
    /\ pc = "crop"
    /\ \E s \in PersistedStyles :
          /\ ~Complete(Found(s))
          /\ Found(s).right # None
          /\ Val(Found(s).right) > Val(image_bottom)[1]

\* img is the w columns of src from column x0 on, h rows high
IsPart(img, src, x0, w, h) ==
    /\ Width(img) = w
    /\ Height(img) = h
    /\ \A x \in 0..(w - 1), y \in 0..(h - 1) :
          getpixel(img, x, y) = getpixel(src, x0 + x, y)

\* C10: in comic mode, for N cropped pages of width W and height H,
\* _create_pdf emits 2N pages, each of size floor(W/2) x H; page 2i-1 carries
\* the right half of cropped page i and page 2i its left half
C10_ComicHalves ==
    (comic /\ pc = "compress") =>
       LET pages == Val(docs.temp_book).pages IN
       /\ Len(pages) = 2 * page_num
       /\ \A i \in 1..page_num :
             LET src == page_files[page_path(i)]
                 W == Width(src)
                 H == Height(src)
                 hw == W \div 2
             IN  /\ pages[2 * i - 1].size = <<hw, H>>
                 /\ pages[2 * i].size = <<hw, H>>
                 /\ IsPart(pages[2 * i - 1].img, src, hw, W - hw, H)
                 /\ IsPart(pages[2 * i].img, src, 0, hw, H)

====
